---- MODULE Spec2Model ----
(***************************************************************************)
(* Fico8: validation, defaulting, cross-category derivation and feature     *)
(* vector assembly of a credit record, and the HTTP handler `main` that     *)
(* drives them (src/Fico8/__init__.py).                                     *)
(*                                                                          *)
(* Conventions                                                              *)
(*   - a Python dict is a TLA+ function whose DOMAIN is the set of keys;    *)
(*   - an attribute that may be None is a sequence: <<>> is None and <<v>>  *)
(*     is the value v;                                                      *)
(*   - numbers are integers: the Float fields are fed integer-valued        *)
(*     floats, and np.array(..).astype(float) maps True/False to 1/0 and    *)
(*     leaves a number unchanged;                                           *)
(*   - err.messages is a set of <<data_key, field, message>> entries, the   *)
(*     entry <<data_key, "", message>> being an error on the nested field   *)
(*     itself.                                                              *)
(***************************************************************************)
EXTENDS Integers, Sequences, FiniteSets, TLC

VARIABLES
    req,        \* the HTTP request body: [valid_json, json]
    edits,      \* number of edits made to the request body before it is sent
    pc,         \* position of the caller: "input", main's steps, or the client's
    cr,         \* the CreditRecord: <<>> (none) or <<record>>
    errors,     \* err.messages of the last load: set of <<data_key, field, msg>>
    built,      \* attributes whose Category Record constructor ran in the last load
    derives,    \* times CreditRecord.process ran on cr: 0, 1, or 2 for "twice or more"
    last,       \* the last call made on the classes and how it ended
    calls,      \* main's trace: the calls the handler made, in order
    response    \* main's HttpResponse status code, 0 while there is none

vars == <<req, edits, pc, cr, errors, built, derives, last, calls, response>>

---------------------------------------------------------------------------
(* Bounds of the model *)

\* number of edits applied to a base request body
MaxEdits == 1

---------------------------------------------------------------------------
(* marshmallow field declarations *)

\* a validator keeps its bounds as given; min_repr and max_repr are their Python
\* str(), which the error message interpolates: "0" for the int 0, "0.0" for the
\* float 0.0

\* validate.Range(min=<int>, max=<int>)
Range(min, max) ==
    [has_min |-> TRUE, min |-> min, min_repr |-> ToString(min),
     has_max |-> TRUE, max |-> max, max_repr |-> ToString(max)]

\* validate.Range(min=<int>)
RangeMin(min) ==
    [has_min |-> TRUE, min |-> min, min_repr |-> ToString(min),
     has_max |-> FALSE, max |-> 0, max_repr |-> ""]

\* validate.Range(min=<float>), the float being integer-valued
RangeMinFloat(min) ==
    [has_min |-> TRUE, min |-> min, min_repr |-> ToString(min) \o ".0",
     has_max |-> FALSE, max |-> 0, max_repr |-> ""]

NoValidate ==
    [has_min |-> FALSE, min |-> 0, min_repr |-> "",
     has_max |-> FALSE, max |-> 0, max_repr |-> ""]

\* fields.X(required=True, validate=v)
Req(name, v) == [name |-> name, required |-> TRUE, missing |-> 0, validate |-> v]

\* fields.X(required=False, missing=m, validate=v)
Opt(name, m, v) == [name |-> name, required |-> FALSE, missing |-> m, validate |-> v]

MsgRequired == "Missing data for required field."

\* validate.Range's message for a value outside the declared range
MsgRange(v) ==
    IF v.has_min /\ v.has_max
    THEN "Must be greater than or equal to " \o v.min_repr
         \o " and less than or equal to " \o v.max_repr \o "."
    ELSE IF v.has_min
    THEN "Must be greater than or equal to " \o v.min_repr \o "."
    ELSE "Must be less than or equal to " \o v.max_repr \o "."

---------------------------------------------------------------------------
(* Column lists of the five Category Records *)

payment_history_columns ==
    << "delinq_2yrs", "mths_since_last_delinq", "mths_since_last_record",
       "open_acc", "pub_rec", "collections_12_mths_ex_med",
       "mths_since_last_major_derog", "acc_now_delinq", "tot_coll_amt",
       "chargeoff_within_12_mths", "delinq_amnt", "mths_since_recent_bc_dlq",
       "mths_since_recent_revol_delinq", "num_accts_ever_120_pd",
       "num_actv_bc_tl", "num_actv_rev_tl", "num_rev_tl_bal_gt_0", "num_sats",
       "num_tl_120dpd_2m", "num_tl_30dpd", "num_tl_90g_dpd_24m",
       "num_tl_op_past_12m", "pct_tl_nvr_dlq", "percent_bc_gt_75",
       "pub_rec_bankruptcies", "tax_liens" >>

amounts_owed_columns ==
    << "revol_bal", "revol_util", "tot_cur_bal", "total_bal_il", "il_util",
       "max_bal_bc", "all_util", "total_rev_hi_lim", "avg_cur_bal",
       "bc_open_to_buy", "bc_util", "tot_hi_cred_lim", "total_bal_ex_mort",
       "total_bc_limit", "total_il_high_credit_limit" >>

history_length_columns ==
    << "mo_sin_old_il_acct", "mo_sin_old_rev_tl_op", "age_earliest_cr_line" >>

new_credit_columns ==
    << "inq_last_6mths", "open_acc_6m", "open_il_12m", "open_il_24m",
       "mths_since_rcnt_il", "open_rv_12m", "open_rv_24m", "inq_fi",
       "inq_last_12m", "acc_open_past_24mths", "mo_sin_rcnt_rev_tl_op",
       "mo_sin_rcnt_tl", "mths_since_recent_bc", "mths_since_recent_inq" >>

credit_mix_columns ==
    << "open_act_il", "total_cu_tl", "mort_acc", "num_bc_sats", "num_bc_tl",
       "num_il_tl", "num_op_rev_tl", "num_rev_accts", "num_tradelines" >>

---------------------------------------------------------------------------
(* The five Category Validators (marshmallow schemas), in declared order *)

PaymentHistoryCreditRecordSchema ==
    << Opt("revol_bal", 0, RangeMinFloat(0)),
       Opt("delinq_2yrs", 0, RangeMin(0)),
       Opt("mths_since_last_delinq", 226, Range(0, 226)),
       Opt("mths_since_last_record", 124, Range(0, 124)),
       Req("open_acc", RangeMin(0)),
       Opt("pub_rec", 0, RangeMin(0)),
       Opt("collections_12_mths_ex_med", 0, RangeMin(0)),
       Opt("mths_since_last_major_derog", 226, Range(0, 226)),
       Opt("acc_now_delinq", 0, RangeMin(0)),
       Opt("tot_coll_amt", 0, RangeMin(0)),
       Opt("chargeoff_within_12_mths", 0, RangeMin(0)),
       Opt("delinq_amnt", 0, RangeMin(0)),
       Opt("mths_since_recent_bc_dlq", 195, RangeMin(0)),
       Opt("mths_since_recent_revol_delinq", 176, RangeMin(0)),
       Opt("num_accts_ever_120_pd", 0, RangeMin(0)),
       Opt("num_actv_bc_tl", 0, RangeMin(0)),
       Opt("num_actv_rev_tl", 0, RangeMin(0)),
       Opt("num_rev_tl_bal_gt_0", 0, RangeMin(0)),
       Req("num_sats", RangeMin(0)),
       Opt("num_tl_120dpd_2m", 0, RangeMin(0)),
       Opt("num_tl_30dpd", 0, RangeMin(0)),
       Opt("num_tl_90g_dpd_24m", 0, RangeMin(0)),
       Opt("num_tl_op_past_12m", 0, RangeMin(0)),
       Req("pct_tl_nvr_dlq", Range(0, 100)),
       Req("percent_bc_gt_75", Range(0, 100)),
       Opt("pub_rec_bankruptcies", 0, RangeMin(0)),
       Opt("tax_liens", 0, RangeMin(0)) >>

AmountsOwedCreditRecordSchema ==
    << Opt("revol_bal", 0, RangeMin(0)),
       Opt("revol_util", 0, RangeMin(0)),
       Req("tot_cur_bal", RangeMin(0)),
       Opt("total_bal_il", 0, RangeMin(0)),
       Opt("il_util", 0, RangeMin(0)),
       Opt("max_bal_bc", 0, RangeMin(0)),
       Req("all_util", RangeMin(0)),
       Opt("total_rev_hi_lim", 0, RangeMin(0)),
       Req("avg_cur_bal", RangeMin(0)),
       Opt("bc_open_to_buy", 0, RangeMin(0)),
       Opt("bc_util", 0, RangeMin(0)),
       Opt("tot_hi_cred_lim", 0, RangeMin(0)),
       Req("total_bal_ex_mort", RangeMin(0)),
       Opt("total_bc_limit", 0, RangeMin(0)),
       Opt("total_il_high_credit_limit", 0, RangeMin(0)) >>

HistoryLengthRecordSchema ==
    << Opt("mo_sin_old_il_acct", 724, Range(0, 724)),
       Opt("mo_sin_old_rev_tl_op", 851, Range(0, 851)),
       Req("age_earliest_cr_line", Range(0, 890)) >>

NewCreditRecordSchema ==
    << Opt("inq_last_6mths", 0, RangeMin(0)),
       Opt("open_acc_6m", 0, RangeMin(0)),
       Opt("open_il_12m", 0, RangeMin(0)),
       Opt("open_il_24m", 0, RangeMin(0)),
       Opt("mths_since_rcnt_il", 507, Range(0, 507)),
       Opt("open_rv_12m", 0, RangeMin(0)),
       Opt("open_rv_24m", 0, RangeMin(0)),
       Opt("inq_fi", 0, RangeMin(0)),
       Opt("inq_last_12m", 0, RangeMin(0)),
       Opt("acc_open_past_24mths", 0, RangeMin(0)),
       Opt("mo_sin_rcnt_rev_tl_op", 502, Range(0, 502)),
       Opt("mo_sin_rcnt_tl", 368, Range(0, 368)),
       Opt("mths_since_recent_bc", 195, Range(0, 195)),
       Opt("mths_since_recent_inq", 25, Range(0, 25)) >>

CreditMixRecordSchema ==
    << Opt("open_act_il", 0, NoValidate),
       Opt("total_cu_tl", 0, NoValidate),
       Opt("mort_acc", 0, NoValidate),
       Req("num_bc_sats", NoValidate),
       Opt("num_bc_tl", 0, NoValidate),
       Opt("num_il_tl", 0, NoValidate),
       Opt("num_op_rev_tl", 0, NoValidate),
       Opt("num_rev_accts", 0, NoValidate),
       Opt("num_tradelines", 0, NoValidate) >>

\* FicoCreditRecordSchema: the five nested fields, attribute name and data_key
FicoCreditRecordSchema ==
    << [attr |-> "payment_history", data_key |-> "paymentHistory",
        schema |-> PaymentHistoryCreditRecordSchema, columns |-> payment_history_columns],
       [attr |-> "amounts_owed", data_key |-> "amountsOwed",
        schema |-> AmountsOwedCreditRecordSchema, columns |-> amounts_owed_columns],
       [attr |-> "history_length", data_key |-> "historyLength",
        schema |-> HistoryLengthRecordSchema, columns |-> history_length_columns],
       [attr |-> "new_credit", data_key |-> "newCredit",
        schema |-> NewCreditRecordSchema, columns |-> new_credit_columns],
       [attr |-> "credit_mix", data_key |-> "creditMix",
        schema |-> CreditMixRecordSchema, columns |-> credit_mix_columns] >>

---------------------------------------------------------------------------
(* Python helpers *)

\* the set of elements of a list
Elems(seq) == { seq[i] : i \in 1..Len(seq) }

\* bool.astype(float): True -> 1.0, False -> 0.0
AsFloat(b) == IF b THEN 1 ELSE 0

\* Python's `b & n` for a bool b and an int n: bitwise and of int(b) with n
BitAnd(b, n) == IF b THEN n % 2 ELSE 0

\* the loop  for key in columns: data.append(self.__data[key])
RawVector(columns, data) == [ i \in 1..Len(columns) |-> data[columns[i]] ]

\* the constructors' loop: value = kwargs.get(key); assert value is not None
MissingColumns(columns, kwargs) == { k \in Elems(columns) : k \notin DOMAIN kwargs }

\* the constructors' loop: self.__data[key] = value, for the declared columns only
ColumnData(columns, kwargs) == [ k \in Elems(columns) |-> kwargs[k] ]

---------------------------------------------------------------------------
(* PaymentHistoryCreditRecord *)

PaymentHistoryCreditRecord(kwargs) ==
    [data |-> ColumnData(payment_history_columns, kwargs)]

never_major_derog(self) == self.data["mths_since_last_major_derog"] >= 226

never_record(self) == self.data["mths_since_last_record"] >= 124

never_delinq(self) == self.data["mths_since_last_delinq"] >= 226

never_recent_revol_delinq(self) == self.data["mths_since_recent_revol_delinq"] >= 176

\* never_recent_bc_delinq with > in place of >=
never_recent_bc_delinq_Strict(self) == self.data["mths_since_recent_bc_dlq"] > 195

never_recent_bc_delinq(self) == self.data["mths_since_recent_bc_dlq"] >= 195

\* never_delinq & tot_coll_amt == 0 parses as (never_delinq & tot_coll_amt) == 0
is_clean(self) == BitAnd(never_delinq(self), self.data["tot_coll_amt"]) = 0

has_recent_pr(self) == self.data["mths_since_last_record"] >= 12

has_recent_delinq(self) == self.data["mths_since_last_delinq"] >= 12

\* numpy() with never_record appended before never_major_derog
PaymentHistoryNumpy_Swapped(self) ==
    [raised |-> "",
     value |-> RawVector(payment_history_columns, self.data)
               \o << AsFloat(never_record(self)),
                     AsFloat(never_major_derog(self)),
                     AsFloat(never_delinq(self)),
                     AsFloat(never_recent_revol_delinq(self)),
                     AsFloat(never_recent_bc_delinq(self)),
                     AsFloat(is_clean(self)),
                     AsFloat(has_recent_pr(self)),
                     AsFloat(has_recent_delinq(self)) >>]

PaymentHistoryNumpy(self) ==
    [raised |-> "",
     value |-> RawVector(payment_history_columns, self.data)
               \o << AsFloat(never_major_derog(self)),
                     AsFloat(never_record(self)),
                     AsFloat(never_delinq(self)),
                     AsFloat(never_recent_revol_delinq(self)),
                     AsFloat(never_recent_bc_delinq(self)),
                     AsFloat(is_clean(self)),
                     AsFloat(has_recent_pr(self)),
                     AsFloat(has_recent_delinq(self)) >>]

---------------------------------------------------------------------------
(* AmountsOwedCreditRecord *)

AmountsOwedCreditRecord(kwargs) ==
    [data |-> ColumnData(amounts_owed_columns, kwargs)]

AmountsOwedNumpy(self) ==
    [raised |-> "", value |-> RawVector(amounts_owed_columns, self.data)]

---------------------------------------------------------------------------
(* HistoryLengthCreditRecord *)

HistoryLengthCreditRecord(kwargs) ==
    [data |-> ColumnData(history_length_columns, kwargs)]

is_mature(self) == self.data["age_earliest_cr_line"] >= 36

HistoryLengthNumpy(self) ==
    [raised |-> "",
     value |-> RawVector(history_length_columns, self.data)
               \o << AsFloat(is_mature(self)) >>]

---------------------------------------------------------------------------
(* NewCreditCreditRecord *)

NewCreditCreditRecord(kwargs) ==
    [data |-> ColumnData(new_credit_columns, kwargs), has_new_revolver |-> <<>>]

\* numpy() without its assertion: an unset has_new_revolver is appended as 0
NewCreditNumpy_NoAssert(self) ==
    [raised |-> "",
     value |-> RawVector(new_credit_columns, self.data)
               \o << IF self.has_new_revolver = <<>> THEN 0
                     ELSE AsFloat(self.has_new_revolver[1]) >>]

NewCreditNumpy(self) ==
    IF self.has_new_revolver = <<>>
    THEN [raised |-> "AssertionError", value |-> <<>>]
    ELSE [raised |-> "",
          value |-> RawVector(new_credit_columns, self.data)
                    \o << AsFloat(self.has_new_revolver[1]) >>]

---------------------------------------------------------------------------
(* CreditMixCreditRecord *)

CreditMixCreditRecord(kwargs) ==
    [data |-> ColumnData(credit_mix_columns, kwargs), no_revol_util |-> <<>>]

is_thick(self) == self.data["num_tradelines"] >= 4

CreditMixNumpy(self) ==
    IF self.no_revol_util = <<>>
    THEN [raised |-> "AssertionError", value |-> <<>>]
    ELSE [raised |-> "",
          value |-> RawVector(credit_mix_columns, self.data)
                    \o << AsFloat(is_thick(self)), AsFloat(self.no_revol_util[1]) >>]

---------------------------------------------------------------------------
(* CreditRecord *)

Attrs == { FicoCreditRecordSchema[i].attr : i \in 1..Len(FicoCreditRecordSchema) }

\* the post_load hook of the nested schema of attribute a: its record class
MakeRecord(a, kwargs) ==
    CASE a = "payment_history" -> PaymentHistoryCreditRecord(kwargs)
      [] a = "amounts_owed"    -> AmountsOwedCreditRecord(kwargs)
      [] a = "history_length"  -> HistoryLengthCreditRecord(kwargs)
      [] a = "new_credit"      -> NewCreditCreditRecord(kwargs)
      [] a = "credit_mix"      -> CreditMixCreditRecord(kwargs)

\* self.<a>.numpy()
Numpy(self, a) ==
    CASE a = "payment_history" -> PaymentHistoryNumpy(self.payment_history)
      [] a = "amounts_owed"    -> AmountsOwedNumpy(self.amounts_owed)
      [] a = "history_length"  -> HistoryLengthNumpy(self.history_length)
      [] a = "new_credit"      -> NewCreditNumpy(self.new_credit)
      [] a = "credit_mix"      -> CreditMixNumpy(self.credit_mix)

\* process with < 12 in place of <= 12
process_StrictLess(self) ==
    [self EXCEPT
        !.new_credit.has_new_revolver =
            << self.history_length.data["mo_sin_old_rev_tl_op"] < 12 >>,
        !.credit_mix.no_revol_util =
            << self.amounts_owed.data["revol_bal"] < 1 >>]

\* CreditRecord.process: the cross-category derivation step
process(self) ==
    [self EXCEPT
        !.new_credit.has_new_revolver =
            << self.history_length.data["mo_sin_old_rev_tl_op"] <= 12 >>,
        !.credit_mix.no_revol_util =
            << self.amounts_owed.data["revol_bal"] < 1 >>]

\* fico_score with the last two inputs exchanged
ScoreOrder_Swapped ==
    << "payment_history", "amounts_owed", "history_length", "credit_mix", "new_credit" >>

\* the order in which fico_score builds the model's inputs
ScoreOrder ==
    << "payment_history", "amounts_owed", "history_length", "new_credit", "credit_mix" >>

\* the outputs the opaque fico_model may return, after int()
ScoreOutputs == {580, 720}

\* CreditRecord.fico_score with the model returning `out`: the five vectors are
\* built in order, the first failing assertion ends the call before fico_model
fico_score(self, out) ==
    LET vecs == [ i \in 1..Len(ScoreOrder) |-> Numpy(self, ScoreOrder[i]) ]
        bad  == { i \in 1..Len(ScoreOrder) : vecs[i].raised # "" }
    IN  IF bad # {}
        THEN [raised |-> "AssertionError", inputs |-> <<>>, value |-> <<>>,
              assembled |-> SubSeq(ScoreOrder, 1, (CHOOSE i \in bad : \A j \in bad : i <= j))]
        ELSE [raised |-> "", inputs |-> [ i \in 1..Len(ScoreOrder) |-> vecs[i].value ],
              value |-> << out >>, assembled |-> ScoreOrder]

---------------------------------------------------------------------------
(* marshmallow: Schema.load of the nested request body *)

\* validate.Range(min, max)(x)
InRange(v, x) == (~v.has_min \/ x >= v.min) /\ (~v.has_max \/ x <= v.max)

FieldNames(schema) == { schema[i].name : i \in 1..Len(schema) }

\* a validator that stops at the first failing field in declared order
FieldErrors_FirstOnly(schema, d) ==
    LET bad == { j \in 1..Len(schema) :
                   \/ schema[j].required /\ schema[j].name \notin DOMAIN d
                   \/ /\ schema[j].name \in DOMAIN d
                      /\ ~InRange(schema[j].validate, d[schema[j].name]) }
    IN  IF bad = {} THEN {}
        ELSE LET j == CHOOSE x \in bad : \A y \in bad : x <= y
             IN  { << schema[j].name,
                      IF schema[j].name \in DOMAIN d THEN MsgRange(schema[j].validate)
                      ELSE MsgRequired >> }

\* the errors one Category Validator collects on the dict d: every declared field
\* is visited; a missing required field and a supplied value outside its range
\* each add an entry (a default is not validated)
FieldErrors(schema, d) ==
    { << schema[i].name, MsgRequired >> :
        i \in { j \in 1..Len(schema) : schema[j].required /\ schema[j].name \notin DOMAIN d } }
    \cup
    { << schema[i].name, MsgRange(schema[i].validate) >> :
        i \in { j \in 1..Len(schema) :
                  /\ schema[j].name \in DOMAIN d
                  /\ ~InRange(schema[j].validate, d[schema[j].name]) } }

\* the data a Category Validator hands to its post_load hook: the supplied value,
\* or the declared `missing` default of an omitted field
Deserialized(schema, d) ==
    [ n \in FieldNames(schema) |->
        IF n \in DOMAIN d
        THEN d[n]
        ELSE schema[CHOOSE i \in 1..Len(schema) : schema[i].name = n].missing ]

\* the nested fields of FicoCreditRecordSchema whose own load succeeds on json
Passing(json) ==
    { i \in 1..Len(FicoCreditRecordSchema) :
        /\ FicoCreditRecordSchema[i].data_key \in DOMAIN json
        /\ FieldErrors(FicoCreditRecordSchema[i].schema,
                       json[FicoCreditRecordSchema[i].data_key]) = {} }

\* err.messages of fico_credit_schema.load(json)
LoadErrors(json) ==
    UNION { IF FicoCreditRecordSchema[i].data_key \notin DOMAIN json
            THEN { << FicoCreditRecordSchema[i].data_key, "", MsgRequired >> }
            ELSE { << FicoCreditRecordSchema[i].data_key, e[1], e[2] >> :
                     e \in FieldErrors(FicoCreditRecordSchema[i].schema,
                                       json[FicoCreditRecordSchema[i].data_key]) }
          : i \in 1..Len(FicoCreditRecordSchema) }

\* CreditRecord(**data): the five Category Records made by the nested post_load hooks
CreditRecord(json) ==
    [ a \in Attrs |->
        LET n == FicoCreditRecordSchema[CHOOSE i \in 1..Len(FicoCreditRecordSchema) :
                                          FicoCreditRecordSchema[i].attr = a]
        IN  MakeRecord(a, Deserialized(n.schema, json[n.data_key])) ]

\* fico_credit_schema.load(json): a nested schema that collects no error runs its
\* post_load hook (the Category Record constructor, whose assertion needs every
\* column); FicoCreditRecordSchema's own hook runs only when no nested field failed
load(json) ==
    LET pass == Passing(json)
        errs == LoadErrors(json)
        unset == { i \in pass :
                     MissingColumns(FicoCreditRecordSchema[i].columns,
                                    Deserialized(FicoCreditRecordSchema[i].schema,
                                                 json[FicoCreditRecordSchema[i].data_key])) # {} }
    IN  IF unset # {}
        THEN [raised |-> "AssertionError", errors |-> {}, record |-> <<>>,
              built |-> { FicoCreditRecordSchema[i].attr : i \in pass \ unset }]
        ELSE IF errs # {}
        THEN [raised |-> "ValidationError", errors |-> errs, record |-> <<>>,
              built |-> { FicoCreditRecordSchema[i].attr : i \in pass }]
        ELSE [raised |-> "", errors |-> {}, record |-> << CreditRecord(json) >>,
              built |-> Attrs]

---------------------------------------------------------------------------
(* Request bodies *)

\* an ordinary value for the field f of schema: its position in the schema
\* (inside every declared range, and different for every field of a category)
Ordinary(schema, f) == CHOOSE i \in 1..Len(schema) : schema[i].name = f

\* the nested body that supplies exactly the required fields
MinimalJson ==
    [ k \in { FicoCreditRecordSchema[i].data_key : i \in 1..Len(FicoCreditRecordSchema) } |->
        LET n == FicoCreditRecordSchema[CHOOSE i \in 1..Len(FicoCreditRecordSchema) :
                                          FicoCreditRecordSchema[i].data_key = k]
        IN  [ f \in { n.schema[i].name : i \in { j \in 1..Len(n.schema) : n.schema[j].required } }
                |-> Ordinary(n.schema, f) ] ]

\* the nested body whose five category mappings are empty
EmptyJson == [ k \in DOMAIN MinimalJson |-> <<>> ]

\* the body json with every declared field it omits supplied
Filled(json) ==
    [ k \in DOMAIN json |->
        LET n == FicoCreditRecordSchema[CHOOSE i \in 1..Len(FicoCreditRecordSchema) :
                                          FicoCreditRecordSchema[i].data_key = k]
        IN  [ f \in FieldNames(n.schema) |->
                IF f \in DOMAIN json[k] THEN json[k][f] ELSE Ordinary(n.schema, f) ] ]

BaseRequests ==
    { [valid_json |-> FALSE, json |-> <<>>],
      [valid_json |-> TRUE, json |-> MinimalJson],
      [valid_json |-> TRUE, json |-> EmptyJson] }

\* values at the thresholds of the derived properties
Thresholds(name) ==
    CASE name \in {"mths_since_last_delinq", "mths_since_last_record",
                   "mo_sin_old_rev_tl_op"} -> {11, 12, 13}
      [] name = "age_earliest_cr_line" -> {35, 36}
      [] name = "num_tradelines" -> {3, 4}
      [] name \in {"tot_coll_amt", "revol_bal"} -> {0, 2, 3}
      [] OTHER -> {}

\* the values an edit may give to the field f: below zero, zero for a required
\* field, and the values around its declared maximum, its default and its thresholds
Candidates(f) ==
    {-1}
    \cup (IF f.required THEN {0} ELSE {})
    \cup (IF f.validate.has_max THEN {f.validate.max, f.validate.max + 1} ELSE {})
    \cup (IF f.missing > 0 THEN {f.missing - 1, f.missing, f.missing + 1} ELSE {})
    \cup Thresholds(f.name)

NoCall == [op |-> "", arg |-> "", raised |-> "", value |-> <<>>, inputs |-> <<>>,
           assembled |-> <<>>]

---------------------------------------------------------------------------
(* The state machine *)

Init ==
    /\ req \in BaseRequests
    /\ edits = 0
    /\ pc = "input"
    /\ cr = <<>>
    /\ errors = {}
    /\ built = {}
    /\ derives = 0
    /\ last = NoCall
    /\ calls = <<>>
    /\ response = 0

\* the sender sets one field of one category mapping
EditSet ==
    /\ pc = "input" /\ req.valid_json /\ edits < MaxEdits
    /\ \E i \in 1..Len(FicoCreditRecordSchema) :
         LET n == FicoCreditRecordSchema[i] IN
         /\ n.data_key \in DOMAIN req.json
         /\ \E j \in 1..Len(n.schema) : \E v \in Candidates(n.schema[j]) :
              req' = [req EXCEPT !.json[n.data_key] =
                        [ f \in DOMAIN @ \cup {n.schema[j].name} |->
                            IF f = n.schema[j].name THEN v ELSE @[f] ]]
    /\ edits' = edits + 1
    /\ UNCHANGED <<pc, cr, errors, built, derives, last, calls, response>>

\* the sender omits one field of one category mapping
EditDropField ==
    /\ pc = "input" /\ req.valid_json /\ edits < MaxEdits
    /\ \E k \in DOMAIN req.json : \E name \in DOMAIN req.json[k] :
         req' = [req EXCEPT !.json[k] = [ f \in DOMAIN @ \ {name} |-> @[f] ]]
    /\ edits' = edits + 1
    /\ UNCHANGED <<pc, cr, errors, built, derives, last, calls, response>>

\* the sender omits one category mapping
EditDropCategory ==
    /\ pc = "input" /\ req.valid_json /\ edits < MaxEdits
    /\ \E k \in DOMAIN req.json :
         req' = [req EXCEPT !.json = [ c \in DOMAIN @ \ {k} |-> @[c] ]]
    /\ edits' = edits + 1
    /\ UNCHANGED <<pc, cr, errors, built, derives, last, calls, response>>

\* the sender supplies every declared field the body omits
EditFillAll ==
    /\ pc = "input" /\ req.valid_json /\ edits < MaxEdits
    /\ req' = [req EXCEPT !.json = Filled(@)]
    /\ edits' = edits + 1
    /\ UNCHANGED <<pc, cr, errors, built, derives, last, calls, response>>

\* the effect of fico_credit_schema.load(req_body) on the record state
DoLoad(r) ==
    /\ cr' = r.record
    /\ errors' = r.errors
    /\ built' = r.built
    /\ last' = [NoCall EXCEPT !.op = "load", !.raised = r.raised]

\* the effect of cr.process()
DoProcess ==
    /\ cr' = << process(cr[1]) >>
    /\ derives' = IF derives < 2 THEN derives + 1 ELSE derives
    /\ last' = [NoCall EXCEPT !.op = "process"]

\* the effect of reading cr.fico_score
DoFicoScore(r) ==
    last' = [op |-> "fico_score", arg |-> "", raised |-> r.raised, value |-> r.value,
             inputs |-> r.inputs, assembled |-> r.assembled]

(* main(req): the HTTP handler, one step per call it makes *)

\* req.get_body(); req.get_json(), ValueError answered with 400
MainParse ==
    /\ pc = "input"
    /\ calls' = Append(calls, "get_json")
    /\ IF req.valid_json
       THEN pc' = "parsed" /\ response' = response
       ELSE pc' = "done" /\ response' = 400
    /\ UNCHANGED <<req, edits, cr, errors, built, derives, last>>

\* load_credit_record: fico_credit_schema.load(req_body), ValidationError answered with 400
MainLoad ==
    /\ pc = "parsed"
    /\ LET r == load(req.json) IN
         /\ DoLoad(r)
         /\ calls' = Append(calls, "load")
         /\ CASE r.raised = "" -> pc' = "loaded" /\ response' = response
              [] r.raised = "ValidationError" -> pc' = "done" /\ response' = 400
              [] OTHER -> pc' = "done" /\ response' = 500
    /\ UNCHANGED <<req, edits, derives>>

\* load_credit_record: cr.process()
MainProcess ==
    /\ pc = "loaded"
    /\ DoProcess
    /\ calls' = Append(calls, "process")
    /\ pc' = "derived"
    /\ UNCHANGED <<req, edits, errors, built, response>>

\* response = {'fico_score': cr.fico_score}
MainFicoScore ==
    /\ pc = "derived"
    /\ \E out \in ScoreOutputs :
         LET r == fico_score(cr[1], out) IN
         /\ DoFicoScore(r)
         /\ calls' = calls \o [ i \in 1..Len(r.assembled) |-> "numpy " \o r.assembled[i] ]
                           \o (IF r.raised = "" THEN << "fico_model" >> ELSE <<>>)
         /\ IF r.raised = ""
            THEN pc' = "scored" /\ response' = response
            ELSE pc' = "done" /\ response' = 500
    /\ UNCHANGED <<req, edits, cr, errors, built, derives>>

\* return func.HttpResponse(json.dumps(...), status_code=200)
MainRespond ==
    /\ pc = "scored"
    /\ pc' = "done"
    /\ response' = 200
    /\ UNCHANGED <<req, edits, cr, errors, built, derives, last, calls>>

(* a client of the classes: loads a body, then calls the record's operations *)

ClientLoad ==
    /\ pc = "input" /\ req.valid_json
    /\ DoLoad(load(req.json))
    /\ pc' = "client"
    /\ UNCHANGED <<req, edits, derives, calls, response>>

ClientProcess ==
    /\ pc = "client" /\ cr # <<>>
    /\ DoProcess
    /\ UNCHANGED <<req, edits, pc, errors, built, calls, response>>

ClientNumpy ==
    /\ pc = "client" /\ cr # <<>>
    /\ \E a \in Attrs :
         LET r == Numpy(cr[1], a) IN
         last' = [NoCall EXCEPT !.op = "numpy", !.arg = a, !.raised = r.raised,
                                !.value = r.value]
    /\ UNCHANGED <<req, edits, pc, cr, errors, built, derives, calls, response>>

ClientFicoScore ==
    /\ pc = "client" /\ cr # <<>>
    /\ \E out \in ScoreOutputs : DoFicoScore(fico_score(cr[1], out))
    /\ UNCHANGED <<req, edits, pc, cr, errors, built, derives, calls, response>>

Next ==
    \/ EditSet
    \/ EditDropField
    \/ EditDropCategory
    \/ EditFillAll
    \/ MainParse
    \/ MainLoad
    \/ MainProcess
    \/ MainFicoScore
    \/ MainRespond
    \/ ClientLoad
    \/ ClientProcess
    \/ ClientNumpy
    \/ ClientFicoScore

Spec == Init /\ [][Next]_vars

---------------------------------------------------------------------------
(* Properties *)

\* the nested field of FicoCreditRecordSchema for attribute a
NestedOf(a) ==
    FicoCreditRecordSchema[CHOOSE i \in 1..Len(FicoCreditRecordSchema) :
                             FicoCreditRecordSchema[i].attr = a]

\* the fixed vector lengths and raw-field counts of the five categories
VectorLength ==
    [payment_history |-> 34, amounts_owed |-> 15, history_length |-> 4,
     new_credit |-> 15, credit_mix |-> 11]

RawCount ==
    [payment_history |-> 26, amounts_owed |-> 15, history_length |-> 3,
     new_credit |-> 14, credit_mix |-> 9]

\* the derived booleans of the record rec of category a, in their declared order
DerivedBooleans(a, rec) ==
    CASE a = "payment_history" ->
            << never_major_derog(rec), never_record(rec), never_delinq(rec),
               never_recent_revol_delinq(rec), never_recent_bc_delinq(rec),
               is_clean(rec), has_recent_pr(rec), has_recent_delinq(rec) >>
      [] a = "amounts_owed"   -> <<>>
      [] a = "history_length" -> << is_mature(rec) >>
      [] a = "new_credit"     -> << rec.has_new_revolver[1] >>
      [] a = "credit_mix"     -> << is_thick(rec), rec.no_revol_util[1] >>

\* C1: a vector returned by numpy() has its category's fixed length (34, 15, 4,
\* 15, 11); its first N entries are the N raw fields in column order and the
\* remaining entries are the derived booleans, in declared order, as 0/1.
C1_VectorLayout ==
    (last.op = "numpy" /\ last.raised = "") =>
        LET a    == last.arg
            rec  == cr[1][a]
            cols == NestedOf(a).columns
            bits == DerivedBooleans(a, rec)
        IN  /\ Len(last.value) = VectorLength[a]
            /\ Len(cols) = RawCount[a]
            /\ \A i \in 1..RawCount[a] : last.value[i] = rec.data[cols[i]]
            /\ Len(bits) = VectorLength[a] - RawCount[a]
            /\ \A i \in 1..Len(bits) :
                 last.value[RawCount[a] + i] = (IF bits[i] THEN 1 ELSE 0)

\* C1 witness: the Payment History vector of a record whose never_record and
\* never_major_derog differ has been returned
C1_Witness ==
    /\ last.op = "numpy" /\ last.arg = "payment_history" /\ last.raised = ""
    /\ Len(last.value) = 34
    /\ last.value[27] = 1 /\ last.value[28] = 0

\* C2: once process() has run, has_new_revolver = (mo_sin_old_rev_tl_op <= 12) and
\* no_revol_util = (revol_bal < 1), also after a second call, and every raw field
\* of the five records still holds the value the validators gave it.
C2_DeriveIdempotent ==
    derives >= 1 =>
        /\ cr[1].new_credit.has_new_revolver
             = << cr[1].history_length.data["mo_sin_old_rev_tl_op"] <= 12 >>
        /\ cr[1].credit_mix.no_revol_util
             = << cr[1].amounts_owed.data["revol_bal"] < 1 >>
        /\ \A a \in Attrs :
             LET n == NestedOf(a)
                 given == Deserialized(n.schema, req.json[n.data_key])
             IN  cr[1][a].data = [ k \in Elems(n.columns) |-> given[k] ]

\* C2 witness: process() ran twice on a record whose oldest revolving account is
\* exactly 12 months old
C2_Witness ==
    /\ derives = 2
    /\ cr[1].history_length.data["mo_sin_old_rev_tl_op"] = 12
    /\ cr[1].new_credit.has_new_revolver = << TRUE >>
    /\ cr[1].credit_mix.no_revol_util = << TRUE >>

\* C3: before process() has run, numpy() of New Credit and of Credit Mix and the
\* fico_score property end in an AssertionError: no vector is produced and the
\* model is not invoked. A New Credit or Credit Mix vector is only ever produced
\* from a set derived field.
C3_NoVectorBeforeDerive ==
    /\ (last.op = "numpy" /\ last.arg \in {"new_credit", "credit_mix"} /\ derives = 0)
          => (last.raised = "AssertionError" /\ last.value = <<>>)
    /\ (last.op = "fico_score" /\ derives = 0)
          => (last.raised = "AssertionError" /\ last.inputs = <<>> /\ last.value = <<>>)
    /\ (last.op = "numpy" /\ last.arg = "new_credit" /\ last.raised = "")
          => cr[1].new_credit.has_new_revolver # <<>>
    /\ (last.op = "numpy" /\ last.arg = "credit_mix" /\ last.raised = "")
          => cr[1].credit_mix.no_revol_util # <<>>
    /\ (last.op = "fico_score" /\ last.raised = "")
          => (cr[1].new_credit.has_new_revolver # <<>>
              /\ cr[1].credit_mix.no_revol_util # <<>>)

\* C3 witness: fico_score was read on a loaded record before process() and failed
C3_Witness ==
    /\ cr # <<>> /\ derives = 0
    /\ last.op = "fico_score" /\ last.raised = "AssertionError"

\* C4 (as stated): every raw field of every Category Record made by a validator
\* is non-negative.
C4_AllRawNonNegative ==
    cr # <<>> =>
        \A a \in Attrs : \A k \in DOMAIN cr[1][a].data : cr[1][a].data[k] >= 0

\* C5 (as stated): is_clean is true exactly when never_delinq is true and
\* tot_coll_amt is 0.
C5_IsCleanIsConjunction ==
    cr # <<>> =>
        LET ph == cr[1].payment_history IN
        is_clean(ph) = (never_delinq(ph) /\ ph.data["tot_coll_amt"] = 0)

\* C6 (as stated): the record made from an accepted input holds a value for every
\* field its validator declares: the supplied value, or the declared default.
C6_EveryDeclaredFieldHeld ==
    cr # <<>> =>
        \A a \in Attrs :
            LET n == NestedOf(a)
                d == req.json[n.data_key]
            IN  \A i \in 1..Len(n.schema) :
                  LET f == n.schema[i] IN
                  /\ f.name \in DOMAIN cr[1][a].data
                  /\ cr[1][a].data[f.name]
                       = (IF f.name \in DOMAIN d THEN d[f.name] ELSE f.missing)

\* the fields of the body that fail their rule: required and missing, or supplied
\* outside the declared range
Failing(json) ==
    UNION { LET n == FicoCreditRecordSchema[i]
                d == json[n.data_key]
            IN  { << n.data_key, n.schema[j].name >> :
                    j \in { x \in 1..Len(n.schema) :
                              LET f == n.schema[x] IN
                              \/ f.required /\ f.name \notin DOMAIN d
                              \/ /\ f.name \in DOMAIN d
                                 /\ f.validate.has_min /\ d[f.name] < f.validate.min
                              \/ /\ f.name \in DOMAIN d
                                 /\ f.validate.has_max /\ d[f.name] > f.validate.max } }
          : i \in { x \in 1..Len(FicoCreditRecordSchema) :
                      FicoCreditRecordSchema[x].data_key \in DOMAIN json } }

\* C7: when fields of the body are required but missing or outside their range,
\* load raises a ValidationError whose report names, under its category, every
\* such field (a missing one as missing, the other as a range violation); no
\* CreditRecord is made and no Category Record of a failing category is built.
C7_AllFailuresReported ==
    (last.op = "load" /\ Failing(req.json) # {}) =>
        /\ last.raised = "ValidationError"
        /\ cr = <<>>
        /\ \A p \in Failing(req.json) :
             /\ \E e \in errors : e[1] = p[1] /\ e[2] = p[2]
             /\ \A e \in errors :
                  (e[1] = p[1] /\ e[2] = p[2]) =>
                      (e[3] = MsgRequired <=> p[2] \notin DOMAIN req.json[p[1]])
             /\ \A a \in built : NestedOf(a).data_key # p[1]

\* C7 witness: a load failed with a missing field and an out-of-range field of one
\* category both in the report, while another category passed and was built
C7_Witness ==
    /\ last.op = "load" /\ last.raised = "ValidationError"
    /\ << "paymentHistory", "open_acc", MsgRange(RangeMin(0)) >> \in errors
    /\ << "paymentHistory", "num_sats", MsgRequired >> \in errors
    /\ "new_credit" \in built

\* the calls of a request that is answered with a score, in order
FullTrace ==
    << "get_json", "load", "process", "numpy payment_history", "numpy amounts_owed",
       "numpy history_length", "numpy new_credit", "numpy credit_mix", "fico_model" >>

\* C8: main makes its calls in the order parse, validate, derive, assemble, score.
\* A request answered 200 made each call once, the model receiving the vectors of
\* payment_history, amounts_owed, history_length, new_credit, credit_mix in that
\* order, built after process(); a request whose body does not parse or does not
\* validate is answered 400 and neither process() nor the model is called.
C8_PipelineOrder ==
    /\ Len(calls) <= Len(FullTrace)
    /\ calls = SubSeq(FullTrace, 1, Len(calls))
    /\ response = 200 =>
          /\ calls = FullTrace
          /\ derives = 1
          /\ last.op = "fico_score" /\ last.raised = ""
          /\ last.inputs = << Numpy(cr[1], "payment_history").value,
                              Numpy(cr[1], "amounts_owed").value,
                              Numpy(cr[1], "history_length").value,
                              Numpy(cr[1], "new_credit").value,
                              Numpy(cr[1], "credit_mix").value >>
    /\ (pc = "done" /\ calls # <<>> /\ (~req.valid_json \/ LoadErrors(req.json) # {})) =>
          /\ response = 400
          /\ derives = 0
          /\ \A i \in 1..Len(calls) : calls[i] \in {"get_json", "load"}
    /\ (calls # <<>> /\ response \notin {0, 200}) =>
          (~req.valid_json \/ LoadErrors(req.json) # {})

\* C8 witness: a request was answered 200
C8_Witness ==
    /\ response = 200 /\ pc = "done"
    /\ calls[Len(calls)] = "fico_model"

\* C9 (as stated): each never_X property is true exactly when its months-since
\* field equals its sentinel default.
C9_NeverIffEqualsSentinel ==
    cr # <<>> =>
        LET ph == cr[1].payment_history IN
        /\ never_delinq(ph) = (ph.data["mths_since_last_delinq"] = 226)
        /\ never_record(ph) = (ph.data["mths_since_last_record"] = 124)
        /\ never_major_derog(ph) = (ph.data["mths_since_last_major_derog"] = 226)
        /\ never_recent_revol_delinq(ph) = (ph.data["mths_since_recent_revol_delinq"] = 176)
        /\ never_recent_bc_delinq(ph) = (ph.data["mths_since_recent_bc_dlq"] = 195)

\* C9 (amended): each never_X property is true exactly when its months-since field
\* is at least its sentinel default (226, 124, 226, 176, 195), which for the three
\* fields the validator caps at the sentinel means equal to it; it is false for
\* every smaller accepted value and true when the field is omitted.
C9_NeverIffAtLeastSentinel ==
    cr # <<>> =>
        LET ph == cr[1].payment_history
            d  == req.json["paymentHistory"]
        IN  /\ never_delinq(ph) = (ph.data["mths_since_last_delinq"] = 226)
            /\ never_record(ph) = (ph.data["mths_since_last_record"] = 124)
            /\ never_major_derog(ph) = (ph.data["mths_since_last_major_derog"] = 226)
            /\ never_recent_revol_delinq(ph)
                 = (ph.data["mths_since_recent_revol_delinq"] >= 176)
            /\ never_recent_bc_delinq(ph) = (ph.data["mths_since_recent_bc_dlq"] >= 195)
            /\ "mths_since_last_delinq" \notin DOMAIN d => never_delinq(ph)
            /\ "mths_since_last_record" \notin DOMAIN d => never_record(ph)
            /\ "mths_since_last_major_derog" \notin DOMAIN d => never_major_derog(ph)
            /\ "mths_since_recent_revol_delinq" \notin DOMAIN d
                  => never_recent_revol_delinq(ph)
            /\ "mths_since_recent_bc_dlq" \notin DOMAIN d => never_recent_bc_delinq(ph)

\* C9 witness: the validator accepted a months-since value above the sentinel and
\* the never_X property of that field is true
C9_Witness ==
    /\ cr # <<>>
    /\ cr[1].payment_history.data["mths_since_recent_revol_delinq"] = 177
    /\ never_recent_revol_delinq(cr[1].payment_history)
    /\ "mths_since_recent_bc_dlq" \notin DOMAIN req.json["paymentHistory"]
    /\ never_recent_bc_delinq(cr[1].payment_history)

\* C10 (as stated): has_recent_delinq and never_delinq are never both true, nor are
\* has_recent_pr and never_record; has_recent_X holds exactly when the months-since
\* field is within 12 months.
C10_RecentOppositeOfNever ==
    cr # <<>> =>
        LET ph == cr[1].payment_history IN
        /\ ~(has_recent_delinq(ph) /\ never_delinq(ph))
        /\ ~(has_recent_pr(ph) /\ never_record(ph))
        /\ has_recent_delinq(ph) = (ph.data["mths_since_last_delinq"] <= 12)
        /\ has_recent_pr(ph) = (ph.data["mths_since_last_record"] <= 12)

====
